---------------------------- MODULE Spec2Model ----------------------------
(***************************************************************************)
(* tinystomp: STOMP frame formatters and the incremental Parser.           *)
(*                                                                         *)
(* A byte string is a sequence of one-byte symbols.  The three control     *)
(* bytes are written LF, CR and NUL; every other byte is the one-character *)
(* string of its ASCII character.  Offsets are 0-based, as in Python.      *)
(* Python's None is the empty tuple and a present value x is <<x>>.        *)
(***************************************************************************)
EXTENDS Integers, Sequences, FiniteSets, TLC

VARIABLES
    s,          \* Parser.s: the unconsumed bytes
    frames,     \* Parser.frames: the deque of parsed frames
    frame_eof,  \* Parser.frame_eof: None or an offset into s
    raised,     \* exception raised by the last call ("None" when it returned)
    ret,        \* the value returned by the last next() call (None otherwise)
    rest,       \* bytes of the scenario's stream not yet handed to receive
    sent,       \* concatenation of all chunks handed to receive so far
    popped,     \* the frames returned by next() so far, oldest first
    scen,       \* the scenario: what the stream was built from
    pieces,     \* non-empty chunks handed to receive so far (2 for 2 or more)
    pc          \* position inside receive ("idle" between calls)

vars == <<s, frames, frame_eof, raised, ret, rest, sent, popped, scen, pieces,
          pc>>

-----------------------------------------------------------------------------
(* Bytes and Python built-ins                                              *)

LF == "LF"
CR == "CR"
NUL == "NUL"

None == <<>>
Some(x) == <<x>>

Digits == <<"0", "1", "2", "3", "4", "5", "6", "7", "8", "9">>

IsDigit(c) == \E d \in 1..10 : Digits[d] = c

DigitVal(c) == (CHOOSE d \in 1..10 : Digits[d] = c) - 1

\* s[a:b] for 0 <= a, 0 <= b
Slice(str, a, b) ==
    LET hi == IF b > Len(str) THEN Len(str) ELSE b
    IN  IF a >= hi THEN <<>> ELSE SubSeq(str, a + 1, hi)

\* A variant of Find that gives the offset of the last c, as str.rfind
FindLast(str, c) ==
    IF \E i \in 1..Len(str) : str[i] = c
    THEN (CHOOSE i \in 1..Len(str) :
              str[i] = c /\ \A j \in (i + 1)..Len(str) : str[j] # c) - 1
    ELSE -1

\* str.find(c): offset of the first c, or -1
Find(str, c) ==
    IF \E i \in 1..Len(str) : str[i] = c
    THEN (CHOOSE i \in 1..Len(str) :
              str[i] = c /\ \A j \in 1..(i - 1) : str[j] # c) - 1
    ELSE -1

RECURSIVE Concat(_)
Concat(ss) == IF ss = <<>> THEN <<>> ELSE Head(ss) \o Concat(Tail(ss))

\* str(n) for an int n >= 0
RECURSIVE StrInt(_)
StrInt(n) ==
    IF n < 10 THEN <<Digits[n + 1]>>
    ELSE StrInt(n \div 10) \o <<Digits[(n % 10) + 1]>>

\* Values passed to the formatters: byte strings, ints and floats.
PyStr(b) == [t |-> "str", v |-> b]
PyInt(n) == [t |-> "int", v |-> n]
PyFloat(w, f) == [t |-> "float", v |-> <<w, f>>]

\* str(value)
Str(x) ==
    CASE x.t = "str" -> x.v
      [] x.t = "int" -> StrInt(x.v)
      [] x.t = "float" -> StrInt(x.v[1]) \o <<".">> \o x.v[2]

RECURSIVE DigitsValue(_, _)
DigitsValue(str, acc) ==
    IF str = <<>> THEN acc
    ELSE DigitsValue(Tail(str), acc * 10 + DigitVal(Head(str)))

\* int(str): <<n>>, or None where Python raises ValueError.  An optional sign
\* and one or more decimal digits; the modelled bytes hold no whitespace.
IntOf(str) ==
    LET signed == str # <<>> /\ Head(str) \in {"-", "+"}
        digs == IF signed THEN Tail(str) ELSE str
    IN  IF digs = <<>> \/ \E i \in 1..Len(digs) : ~IsDigit(digs[i])
        THEN None
        ELSE IF signed /\ Head(str) = "-"
             THEN Some(0 - DigitsValue(digs, 0))
             ELSE Some(DigitsValue(digs, 0))

\* key.replace('_', '-')
RECURSIVE ReplaceUnderscore(_)
ReplaceUnderscore(key) ==
    IF key = <<>> THEN <<>>
    ELSE <<IF Head(key) = "_" THEN "-" ELSE Head(key)>>
             \o ReplaceUnderscore(Tail(key))

\* str.splitlines() of a byte string: a line ends at \n, \r or \r\n, and a
\* final line end opens no further line.  LineEnds is the set of offsets
\* (1-based) at which a line end starts.
LineEnds(str) ==
    {i \in 1..Len(str) :
        \/ str[i] = CR
        \/ str[i] = LF /\ ~(i > 1 /\ str[i - 1] = CR)}

LineEndLen(str, i) ==
    IF str[i] = CR /\ i < Len(str) /\ str[i + 1] = LF THEN 2 ELSE 1

\* The k-th smallest of a set of offsets
Nth(ends, k) ==
    CHOOSE i \in ends : Cardinality({j \in ends : j < i}) = k - 1

\* Where the line after the line end at offset i starts
AfterEnd(str, i) == i + LineEndLen(str, i)

LinesOf(str, ends, n) ==
    [k \in 1..n |->
        SubSeq(str,
               IF k = 1 THEN 1 ELSE AfterEnd(str, Nth(ends, k - 1)),
               Nth(ends, k) - 1)]

LastLine(str, from) ==
    IF from <= Len(str) THEN <<SubSeq(str, from, Len(str))>> ELSE <<>>

SplitAt(str, ends) ==
    LinesOf(str, ends, Cardinality(ends))
      \o LastLine(str, IF ends = {} THEN 1
                       ELSE AfterEnd(str, Nth(ends, Cardinality(ends))))

splitlines(str) == SplitAt(str, LineEnds(str))

\* line.partition(':')
partition(line) ==
    LET i == Find(line, ":")
    IN  IF i = -1 THEN [key |-> line, sep |-> <<>>, value |-> <<>>]
        ELSE [key |-> Slice(line, 0, i), sep |-> <<":">>,
              value |-> Slice(line, i + 1, Len(line))]

\* A variant of setdefault that overwrites the key: the last value wins
setdefault_last(d, key, value) == (key :> value) @@ d

\* dict.setdefault(key, value)
setdefault(d, key, value) ==
    IF key \in DOMAIN d THEN d ELSE (key :> value) @@ d

\* d[key] = value
setitem(d, key, value) == (key :> value) @@ d

-----------------------------------------------------------------------------
(* split_frame                                                             *)

\* _double_eol_pat.match at offset i of str, the string ending at stop: the
\* offset past the match, or -1.
DoubleEolAt(str, i, stop) ==
    LET At(j) == IF j < stop /\ j < Len(str) THEN str[j + 1] ELSE "EOS"
        p1 == IF At(i) = CR THEN i + 1 ELSE i
        p2 == p1 + 1
        p3 == IF At(p2) = CR THEN p2 + 1 ELSE p2
    IN  IF At(p1) = LF /\ At(p3) = LF THEN p3 + 1 ELSE -1

\* The next match of _double_eol_pat at or after offset from: <<mstart, mend>>
\* or None.
NextDoubleEol(str, from, stop) ==
    LET hits == {i \in from..(stop - 1) : DoubleEolAt(str, i, stop) # -1}
    IN  IF from < 0 \/ hits = {} THEN None
        ELSE LET i == CHOOSE h \in hits : \A g \in hits : h <= g
             IN  Some(<<i, DoubleEolAt(str, i, stop)>>)

\* The loop body of split_frame for the match m (None when finditer is
\* exhausted)
RECURSIVE split_frame(_, _, _)
\* A variant of SplitMatch that takes the first match for the end of the
\* lines, prefixing pairs included
SplitMatchNoSkip(str, start, stop, m) ==
    IF m = None THEN [end |-> 0, lines |-> <<>>]
    ELSE [end |-> m[1][2], lines |-> splitlines(Slice(str, start, m[1][1]))]

SplitMatch(str, start, stop, m) ==
    IF m = None THEN [end |-> 0, lines |-> <<>>]
    ELSE IF start # m[1][1]
    THEN [end |-> m[1][2], lines |-> splitlines(Slice(str, start, m[1][1]))]
    ELSE split_frame(str, m[1][2], stop)

split_frame(str, start, stop) ==
    SplitMatch(str, start, stop, NextDoubleEol(str, start, stop))

-----------------------------------------------------------------------------
(* Formatters.  A dict is a function from keys to values; iteritems()      *)
(* visits the keys in an order the caller of the model supplies, since the *)
(* order of a Python dict is not fixed by the program.                     *)

CONTENT_LENGTH == <<"c","o","n","t","e","n","t","-","l","e","n","g","t","h">>
ACCEPT_VERSION == <<"a","c","c","e","p","t","_","v","e","r","s","i","o","n">>
VERSIONS == <<"1",".","0",",","1",".","1",",","1",".","2">>
HOST == <<"h","o","s","t">>
DESTINATION == <<"d","e","s","t","i","n","a","t","i","o","n">>
ID == <<"i","d">>
TRANSACTION == <<"t","r","a","n","s","a","c","t","i","o","n">>
RECEIPT == <<"r","e","c","e","i","p","t">>

\* Python truth of an optional byte string (None and '' are false)
Truthy(body) == body # None /\ body[1] # <<>>

\* Python truth of an optional offset (None and 0 are false)
TruthyInt(x) == x # None /\ x[1] # 0

\* body or ''
OrEmpty(body) == IF Truthy(body) THEN body[1] ELSE <<>>

RECURSIVE HeaderBits(_, _)
HeaderBits(headers, order) ==
    IF order = <<>> THEN <<>>
    ELSE ReplaceUnderscore(Head(order)) \o <<":">>
           \o Str(headers[Head(order)]) \o <<LF>>
           \o HeaderBits(headers, Tail(order))

_format(command, body, headers, order) ==
    command \o <<LF>>
      \o (IF Truthy(body)
          THEN CONTENT_LENGTH \o <<":">> \o StrInt(Len(body[1])) \o <<LF>>
          ELSE <<>>)
      \o HeaderBits(headers, order)
      \o <<LF>> \o OrEmpty(body) \o <<NUL>>

connect(host, headers, order) ==
    _format(<<"C","O","N","N","E","C","T">>, Some(<<>>),
            setitem(setitem(headers, ACCEPT_VERSION, PyStr(VERSIONS)),
                    HOST, host),
            order)

send(destination, body, headers, order) ==
    _format(<<"S","E","N","D">>, body,
            setitem(headers, DESTINATION, destination), order)

subscribe(destination, headers, order, now) ==
    _format(<<"S","U","B","S","C","R","I","B","E">>, Some(<<>>),
            setdefault(setitem(headers, DESTINATION, destination),
                       ID, PyStr(Str(now))),
            order)

unsubscribe(destination, id_, headers, order) ==
    _format(<<"U","N","S","U","B","S","C","R","I","B","E">>, Some(<<>>),
            setitem(setitem(headers, DESTINATION, destination), ID, id_),
            order)

ack(id_, headers, order) ==
    _format(<<"A","C","K">>, Some(<<>>), setitem(headers, ID, id_), order)

nack(id_, headers, order) ==
    _format(<<"N","A","C","K">>, Some(<<>>), setitem(headers, ID, id_), order)

begin(transaction, headers, order) ==
    _format(<<"B","E","G","I","N">>, Some(<<>>),
            setitem(headers, TRANSACTION, transaction), order)

commit(transaction, headers, order) ==
    _format(<<"C","O","M","M","I","T">>, Some(<<>>),
            setitem(headers, TRANSACTION, transaction), order)

abort(transaction, headers, order) ==
    _format(<<"A","B","O","R","T">>, Some(<<>>),
            setitem(headers, TRANSACTION, transaction), order)

disconnect(receipt, headers, order) ==
    _format(<<"D","I","S","C","O","N","N","E","C","T">>, Some(<<>>),
            setitem(headers, RECEIPT, receipt), order)

-----------------------------------------------------------------------------
(* Parser                                                                  *)

\* Frame(command) with headers and body filled in
Frame(command, headers, body) ==
    [command |-> command, headers |-> headers, body |-> body]

\* Parser.__init__
Parser == [s |-> <<>>, frames |-> <<>>, frame_eof |-> None]

\* The for loop over the header lines: the dict built by setdefault, or
\* None when a line holds no colon (ProtocolError).
RECURSIVE ParseHeaders(_, _)
ParseHeaders(lines, headers) ==
    IF lines = <<>> THEN Some(headers)
    ELSE LET kv == partition(Head(lines))
         IN  IF kv.sep = <<>> THEN None
             ELSE ParseHeaders(Tail(lines),
                               setdefault(headers, kv.key, kv.value))

\* frame.headers.get('content-length', '0')
GetContentLength(headers) ==
    IF CONTENT_LENGTH \in DOMAIN headers THEN headers[CONTENT_LENGTH]
    ELSE <<"0">>

\* Parser._try_parse, one call on parser state p: the state it leaves and
\* what it returned ("True", "False", "None") or raised.  It is written as a
\* chain of operators, each handing what it computed to the next.

\* A return or raise that changes nothing
Outcome(p, r) ==
    [s |-> p.s, frames |-> p.frames, frame_eof |-> p.frame_eof, ret |-> r]

\* A variant of TryBody that leaves Frame.body at its class default, None,
\* when no byte lies between the blank line and the NUL
TryBodyAbsent(p, nul_pos, end, command, headers, clength) ==
    IF clength = None THEN Outcome(p, "ValueError")
    ELSE IF clength[1] = 0 \/ end + clength[1] = nul_pos
    THEN [s |-> Slice(p.s, nul_pos + 1, Len(p.s)),
          frames |-> Append(p.frames,
                            Frame(command, headers,
                                  IF end = nul_pos THEN None
                                  ELSE Some(Slice(p.s, end, nul_pos)))),
          frame_eof |-> None,
          ret |-> "True"]
    ELSE [s |-> p.s, frames |-> p.frames,
          frame_eof |-> Some(end + clength[1]), ret |-> "False"]

\* A variant of TryBody that slices the buffer at the NUL, not past it
TryBodyKeepNul(p, nul_pos, end, command, headers, clength) ==
    IF clength = None THEN Outcome(p, "ValueError")
    ELSE IF clength[1] = 0 \/ end + clength[1] = nul_pos
    THEN [s |-> Slice(p.s, nul_pos, Len(p.s)),
          frames |-> Append(p.frames,
                            Frame(command, headers,
                                  Some(Slice(p.s, end, nul_pos)))),
          frame_eof |-> None,
          ret |-> "True"]
    ELSE [s |-> p.s, frames |-> p.frames,
          frame_eof |-> Some(end + clength[1]), ret |-> "False"]

\* The content-length test: the frame is sliced off and queued, or
\* frame_eof is set
TryBody(p, nul_pos, end, command, headers, clength) ==
    IF clength = None THEN Outcome(p, "ValueError")
    ELSE IF clength[1] = 0 \/ end + clength[1] = nul_pos
    THEN [s |-> Slice(p.s, nul_pos + 1, Len(p.s)),
          frames |-> Append(p.frames,
                            Frame(command, headers,
                                  Some(Slice(p.s, end, nul_pos)))),
          frame_eof |-> None,
          ret |-> "True"]
    ELSE [s |-> p.s, frames |-> p.frames,
          frame_eof |-> Some(end + clength[1]), ret |-> "False"]

\* A variant of TryHeaders that takes a line without a colon for a frame
\* still incomplete and waits
TryHeadersWait(p, nul_pos, end, command, headers) ==
    IF headers = None THEN Outcome(p, "False")
    ELSE TryBody(p, nul_pos, end, command, headers[1],
                 IntOf(GetContentLength(headers[1])))

\* A variant of TryHeaders that drops the bytes of the offending frame as it
\* raises
TryHeadersSkip(p, nul_pos, end, command, headers) ==
    IF headers = None
    THEN [s |-> Slice(p.s, nul_pos + 1, Len(p.s)), frames |-> p.frames,
          frame_eof |-> None, ret |-> "ProtocolError"]
    ELSE TryBody(p, nul_pos, end, command, headers[1],
                 IntOf(GetContentLength(headers[1])))

\* After the header loop: headers is the dict, or None for a line without
\* a colon
TryHeaders(p, nul_pos, end, command, headers) ==
    IF headers = None THEN Outcome(p, "ProtocolError")
    ELSE TryBody(p, nul_pos, end, command, headers[1],
                 IntOf(GetContentLength(headers[1])))


\* A variant of TryLines that takes the first line for the command even
\* when it is blank
TryLinesNoSkip(p, nul_pos, end, lines) ==
    IF lines = <<>> THEN Outcome(p, "False")
    ELSE TryHeaders(p, nul_pos, end, lines[1],
                    ParseHeaders(Tail(lines), <<>>))

\* A variant of TryLines that lets the exhausted iterator raise
TryLinesRaise(p, nul_pos, end, lines) ==
    LET skip == IF lines # <<>> /\ lines[1] = <<>> THEN 1 ELSE 0
    IN  IF Len(lines) <= skip THEN Outcome(p, "ProtocolError")
        ELSE TryHeaders(p, nul_pos, end, lines[skip + 1],
                        ParseHeaders(SubSeq(lines, skip + 2, Len(lines)),
                                     <<>>))

\* A variant of TryLines that takes the second line for the command whether
\* or not the first is blank
TryLinesSecond(p, nul_pos, end, lines) ==
    IF Len(lines) <= 1 THEN Outcome(p, "False")
    ELSE TryHeaders(p, nul_pos, end, lines[2],
                    ParseHeaders(SubSeq(lines, 3, Len(lines)), <<>>))

\* The lines split_frame yields: the command is the first line, or the
\* second when the first is blank; StopIteration returns False
TryLines(p, nul_pos, end, lines) ==
    LET skip == IF lines # <<>> /\ lines[1] = <<>> THEN 1 ELSE 0
    IN  IF Len(lines) <= skip THEN Outcome(p, "False")
        ELSE TryHeaders(p, nul_pos, end, lines[skip + 1],
                        ParseHeaders(SubSeq(lines, skip + 2, Len(lines)),
                                     <<>>))

TrySplit(p, nul_pos, sf) == TryLines(p, nul_pos, sf.end, sf.lines)

\* A variant of TryAt that attempts an extraction only when the first NUL
\* is the last byte of the buffer
TryAtEnd(p, nul_pos) ==
    IF nul_pos = -1 \/ nul_pos # Len(p.s) - 1
       \/ (TruthyInt(p.frame_eof) /\ Len(p.s) < p.frame_eof[1])
    THEN Outcome(p, "None")
    ELSE TrySplit(p, nul_pos, split_frame(p.s, 0, nul_pos))

\* The first test, on the offset of the first NUL
TryAt(p, nul_pos) ==
    IF nul_pos = -1
       \/ (TruthyInt(p.frame_eof) /\ Len(p.s) < p.frame_eof[1])
    THEN Outcome(p, "None")
    ELSE TrySplit(p, nul_pos, split_frame(p.s, 0, nul_pos))

_try_parse(p) == TryAt(p, Find(p.s, NUL))

\* while self._try_parse(): pass
\* LoopTest(r) is the loop's test on the outcome r of one _try_parse: a true
\* return runs _try_parse again, anything else ends receive.
RECURSIVE ParseLoop(_)
\* A variant of Continue that leaves the loop after one _try_parse
ContinueNever(r) == FALSE

\* The while test on the outcome r
Continue(r) == r.ret = "True"

LoopTest(r) ==
    IF Continue(r)
    THEN ParseLoop([s |-> r.s, frames |-> r.frames,
                    frame_eof |-> r.frame_eof])
    ELSE r

ParseLoop(p) == LoopTest(_try_parse(p))

\* A variant of receive that replaces the buffer by the chunk
receive_overwrite(p, c) ==
    ParseLoop([s |-> c, frames |-> p.frames, frame_eof |-> p.frame_eof])

\* A variant of receive that gives back the frames of its chunk when the
\* chunk raises
receive_rollback(p, c) ==
    LET r == ParseLoop([s |-> p.s \o c, frames |-> p.frames,
                        frame_eof |-> p.frame_eof])
    IN  IF r.ret \notin {"ProtocolError", "ValueError"} THEN r
        ELSE [s |-> p.s \o c, frames |-> p.frames,
              frame_eof |-> p.frame_eof, ret |-> r.ret]

\* Parser.receive(c) on parser state p: the state it leaves, with ret the
\* outcome of the last _try_parse ("None" or "False" when receive returns,
\* the exception when it raises).
receive(p, c) ==
    ParseLoop([s |-> p.s \o c, frames |-> p.frames,
               frame_eof |-> p.frame_eof])

\* Parser.can_read
can_read(p) == Len(p.frames) # 0

\* A variant of next that takes the newest frame, as deque.pop would
next_newest(p) ==
    IF Len(p.frames) = 0
    THEN [frames |-> p.frames, ret |-> None, raised |-> "IndexError"]
    ELSE [frames |-> SubSeq(p.frames, 1, Len(p.frames) - 1),
          ret |-> Some(p.frames[Len(p.frames)]), raised |-> "None"]

\* Parser.next on parser state p: the frame returned (None when it raises),
\* the deque it leaves and the exception, deque.popleft raising IndexError.
next(p) ==
    IF Len(p.frames) = 0
    THEN [frames |-> p.frames, ret |-> None, raised |-> "IndexError"]
    ELSE [frames |-> Tail(p.frames), ret |-> Some(Head(p.frames)),
          raised |-> "None"]

\* The exception a finished receive call raised, from the outcome of its
\* last _try_parse
Raised(r) == IF r \in {"ProtocolError", "ValueError"} THEN r ELSE "None"

-----------------------------------------------------------------------------
(* Scenarios: the byte stream a peer transmits.  A stream is one frame,    *)
(* either the output of a formatter call or a frame written by hand the    *)
(* way the tests do, between two runs of heartbeat line ends.              *)

MaxBeats == 3       \* longest run of heartbeats before a frame
MaxHeaders == 2     \* most header lines of a hand-written frame
MaxGap == 2         \* longest run of heartbeats between two frames

EOLs == {<<LF>>, <<CR, LF>>}

\* All runs of at most n line ends, each \n or \r\n
RECURSIVE Runs(_)
Runs(n) ==
    IF n = 0 THEN {<<>>}
    ELSE Runs(n - 1) \cup {r \o e : r \in Runs(n - 1), e \in EOLs}

\* All orders in which iteritems() may visit the keys
Orders(keys) ==
    LET n == Cardinality(keys)
    IN  {o \in [1..n -> keys] : \A i, j \in 1..n : i # j => o[i] # o[j]}

KeyA == <<"a">>
KeyAB == <<"a", "_", "b">>
ValB == PyStr(<<"b">>)
ValBC == PyStr(<<"b", ":", "c">>)
Val7 == PyInt(7)
Val123 == PyInt(123)
Now == PyFloat(14, <<"2", "5">>)
Dest == PyStr(<<"/", "q">>)

\* The **headers a caller passes
CallerHeaders ==
    {<<>>, KeyA :> ValB, (KeyA :> ValBC) @@ (KeyAB :> Val7), ID :> Val123}

\* The bodies a caller passes to send: none, empty, text, text of ten bytes
\* or more, and binary bodies holding NUL bytes
Bodies ==
    {None, Some(<<>>), Some(<<"h", "i">>),
     Some(<<"0", "1", "2", "3", "4", "5", "6", "7", "8", "9", "a">>),
     Some(<<"a", NUL, "b">>), Some(<<NUL>>)}

Verbs == {"connect", "send", "subscribe", "unsubscribe", "ack", "nack",
          "begin", "commit", "abort", "disconnect"}

\* The keys of the dict a helper hands to _format
FinalKeys(verb, headers) ==
    DOMAIN headers \cup
    CASE verb = "connect" -> {ACCEPT_VERSION, HOST}
      [] verb = "send" -> {DESTINATION}
      [] verb = "subscribe" -> {DESTINATION, ID}
      [] verb = "unsubscribe" -> {DESTINATION, ID}
      [] verb \in {"ack", "nack"} -> {ID}
      [] verb \in {"begin", "commit", "abort"} -> {TRANSACTION}
      [] verb = "disconnect" -> {RECEIPT}

\* A formatter call c: the helper c.verb, its positional arguments (c.arg:
\* host, destination, id_, transaction or receipt; c.id_: unsubscribe's
\* second), the body (send only), the keyword headers, the dict order and
\* the clock reading.
\* The bytes the call returns
CallBytes(c) ==
    CASE c.verb = "connect" -> connect(c.arg, c.headers, c.order)
      [] c.verb = "send" -> send(c.arg, c.body, c.headers, c.order)
      [] c.verb = "subscribe" -> subscribe(c.arg, c.headers, c.order, c.now)
      [] c.verb = "unsubscribe" ->
             unsubscribe(c.arg, c.id_, c.headers, c.order)
      [] c.verb = "ack" -> ack(c.arg, c.headers, c.order)
      [] c.verb = "nack" -> nack(c.arg, c.headers, c.order)
      [] c.verb = "begin" -> begin(c.arg, c.headers, c.order)
      [] c.verb = "commit" -> commit(c.arg, c.headers, c.order)
      [] c.verb = "abort" -> abort(c.arg, c.headers, c.order)
      [] c.verb = "disconnect" -> disconnect(c.arg, c.headers, c.order)

\* A frame written by hand: the command line, the header lines, a blank
\* line, the body and the NUL, every line ended by w.eol; w.clen asks for a
\* leading content-length line giving the body's length.
WireBytes(w) ==
    LET cl == IF w.clen
              THEN <<CONTENT_LENGTH \o <<":">> \o StrInt(Len(w.body))>>
              ELSE <<>>
        ls == cl \o w.lines
    IN  w.command \o w.eol
          \o Concat([i \in 1..Len(ls) |-> ls[i] \o w.eol])
          \o w.eol \o w.body \o <<NUL>>

\* Header lines: the same name twice with different values, the second
\* value holding a colon, and a line without a colon
LineK1 == <<"k", ":", "v", "1">>
LineK2 == <<"k", ":", "v", ":", "2">>
LineG == <<"g">>
LinePool == {LineK1, LineK2, LineG}

RECURSIVE SeqsUpTo(_, _)
SeqsUpTo(S, n) ==
    IF n = 0 THEN {<<>>}
    ELSE SeqsUpTo(S, n - 1)
           \cup {Append(q, x) : q \in SeqsUpTo(S, n - 1), x \in S}

\* Body and content-length choices of a hand-written frame; a body holding
\* a NUL always comes with its content-length
WireBodies ==
    {<<<<>>, FALSE>>, <<<<"h", "i">>, FALSE>>, <<<<"h", "i">>, TRUE>>,
     <<<<"a", NUL, "b">>, TRUE>>}

Wires ==
    {[command |-> <<"S", "E", "N", "D">>, lines |-> ls, eol |-> e,
      body |-> b[1], clen |-> b[2]] :
        ls \in SeqsUpTo(LinePool, MaxHeaders), e \in EOLs, b \in WireBodies}

\* The frames that are also sent between heartbeats
BeatWires ==
    {w \in Wires : \/ w.lines = <<>> /\ (w.clen \/ w.body = <<>>)
                   \/ w.lines = <<LineK1, LineK2>> /\ w.body = <<>>
                                                   /\ w.eol = <<CR, LF>>
                   \/ w.lines = <<LineG>> /\ w.body = <<>> /\ w.eol = <<LF>>}

BeatCall ==
    [verb |-> "send", arg |-> Dest, id_ |-> Val123,
     body |-> Some(<<"h", "i">>), headers |-> KeyA :> ValB,
     order |-> <<KeyA, DESTINATION>>, now |-> Now]

\* The heartbeats that follow a frame
Tails == {<<>>, <<CR, LF>>, <<LF, CR, LF, LF>>}

\* The frames that are sent two in a stream
PairWires ==
    {w \in Wires : /\ w.eol = <<LF>>
                   /\ \/ w.lines = <<>> /\ w.body = <<>>
                      \/ w.lines = <<LineK1>> /\ w.body = <<"h", "i">>
                                              /\ w.clen
                      \/ w.lines = <<>> /\ w.body = <<"a", NUL, "b">>}

\* The bytes of a scenario's frame, and of its whole stream
FrameBytes(sc) ==
    CASE sc.kind = "call" -> CallBytes(sc.item)
      [] sc.kind = "wire" -> WireBytes(sc.item)
      [] sc.kind = "raw" -> sc.item

\* The second frame of a scenario of two frames
SecondBytes(sc) ==
    IF sc.second = None THEN <<>> ELSE WireBytes(sc.second[1])

StreamOf(sc) == sc.pre \o FrameBytes(sc) \o sc.post \o SecondBytes(sc)

-----------------------------------------------------------------------------
(* The state machine: a fresh Parser is fed the stream in chunks of any    *)
(* size while its consumer calls next().                                   *)

InitParser ==
    /\ s = Parser.s
    /\ frames = Parser.frames
    /\ frame_eof = Parser.frame_eof
    /\ raised = "None"
    /\ ret = None
    /\ sent = <<>>
    /\ popped = <<>>
    /\ pieces = 0
    /\ pc = "idle"

Start(sc) == scen = sc /\ rest = StreamOf(sc)

InitCall ==
    \E v \in Verbs, h \in CallerHeaders :
      \E o \in Orders(FinalKeys(v, h)),
         b \in (IF v = "send" THEN Bodies ELSE {None}) :
        Start([kind |-> "call", pre |-> <<>>, post |-> <<>>,
               second |-> None,
               item |-> [verb |-> v, arg |-> Dest, id_ |-> Val123,
                         body |-> b, headers |-> h, order |-> o,
                         now |-> Now]])

InitWire ==
    \E w \in Wires :
        Start([kind |-> "wire", pre |-> <<>>, post |-> <<>>,
               second |-> None, item |-> w])

InitBeats ==
    \E pre \in Runs(MaxBeats), post \in Tails :
        \/ \E w \in BeatWires :
             Start([kind |-> "wire", pre |-> pre, post |-> post,
                    second |-> None, item |-> w])
        \/ Start([kind |-> "call", pre |-> pre, post |-> post,
                  second |-> None, item |-> BeatCall])

InitPair ==
    \E w1 \in PairWires, w2 \in PairWires, gap \in Runs(MaxGap) :
        Start([kind |-> "wire", pre |-> <<>>, post |-> gap,
               second |-> Some(w2), item |-> w1])

Init == InitParser /\ (InitCall \/ InitWire \/ InitBeats \/ InitPair)

ParserState == [s |-> s, frames |-> frames, frame_eof |-> frame_eof]

\* The parser and the stream after p.receive(c) left r
Received(c, r) ==
    /\ s' = r.s
    /\ frames' = r.frames
    /\ frame_eof' = r.frame_eof
    /\ raised' = Raised(r.ret)
    /\ sent' = sent \o c
    /\ rest' = SubSeq(rest, Len(c) + 1, Len(rest))
    /\ ret' = None
    /\ pieces' = IF c # <<>> /\ pieces < 2 THEN pieces + 1 ELSE pieces
    /\ UNCHANGED <<popped, scen, pc>>

Feed(c) == Received(c, receive(ParserState, c))

\* p.receive(c) for the next k bytes c of the stream
Receive(k) ==
    /\ pc = "idle"
    /\ k \in 0..Len(rest)
    /\ Feed(SubSeq(rest, 1, k))

\* The consumer after p.next() left r
Popped(r) ==
    /\ frames' = r.frames
    /\ ret' = r.ret
    /\ raised' = r.raised
    /\ popped' = IF r.ret = None THEN popped ELSE Append(popped, r.ret[1])
    /\ UNCHANGED <<s, frame_eof, rest, sent, scen, pieces, pc>>

\* p.next()
PopNext == pc = "idle" /\ Popped(next(ParserState))

\* The consumer of the class docstring: next() after can_read() said yes
Consume == can_read(ParserState) /\ PopNext

ReceiveAny == \E k \in 0..Len(rest) : Receive(k)

Next == ReceiveAny \/ Consume

Spec == Init /\ [][Next]_vars

-----------------------------------------------------------------------------
(* Raw streams: any bytes a peer may send, valid or not, put together from *)
(* a few pieces, while the consumer calls next() whether or not a frame is *)
(* queued.                                                                 *)

MaxRaw == 3         \* most pieces a raw stream is put together from

\* A command line, a content-length of 3 and the blank line
HeadCL == <<"A", LF>> \o CONTENT_LENGTH \o <<":", "3", LF, LF>>

RawTokens ==
    {HeadCL, <<"A", LF>>, <<LF>>, <<NUL>>,
     <<"B", LF, LF, NUL>>, <<"C", LF, LF, NUL>>,
     <<"A", LF, "g", LF, LF, NUL>>}

RawStreams == {Concat(q) : q \in SeqsUpTo(RawTokens, MaxRaw)}

InitRaw ==
    /\ InitParser
    /\ \E b \in RawStreams :
           Start([kind |-> "raw", pre |-> <<>>, post |-> <<>>,
                  second |-> None, item |-> b])

NextRaw == ReceiveAny \/ PopNext

SpecRaw == InitRaw /\ [][NextRaw]_vars

-----------------------------------------------------------------------------
(* receive step by step: the chunk is appended, then every pass of the     *)
(* while loop is one step.                                                 *)

MaxLoop == 2        \* most pieces a stream of the stepwise parser is made of

InitLoop ==
    /\ InitParser
    /\ \E b \in {Concat(q) : q \in SeqsUpTo(RawTokens, MaxLoop)} :
           Start([kind |-> "raw", pre |-> <<>>, post |-> <<>>,
                  second |-> None, item |-> b])

\* self.s += s
AppendChunk(c) ==
    /\ s' = s \o c
    /\ sent' = sent \o c
    /\ rest' = SubSeq(rest, Len(c) + 1, Len(rest))
    /\ pieces' = IF c # <<>> /\ pieces < 2 THEN pieces + 1 ELSE pieces
    /\ raised' = "None"
    /\ ret' = None
    /\ pc' = "loop"
    /\ UNCHANGED <<frames, frame_eof, popped, scen>>

Begin == \E k \in 0..Len(rest) : pc = "idle" /\ AppendChunk(SubSeq(rest, 1, k))

\* The parser after one _try_parse left r: the loop goes on or receive ends
Tried(r) ==
    /\ s' = r.s
    /\ frames' = r.frames
    /\ frame_eof' = r.frame_eof
    /\ raised' = Raised(r.ret)
    /\ pc' = IF Continue(r) THEN "loop" ELSE "idle"
    /\ UNCHANGED <<ret, rest, sent, popped, scen, pieces>>

\* One pass of while self._try_parse()
Step == pc = "loop" /\ Tried(_try_parse(ParserState))

NextLoop == Begin \/ Step \/ Consume

SpecLoop == InitLoop /\ [][NextLoop]_vars

-----------------------------------------------------------------------------
(* The formatters on their own: a helper is called with keyword headers    *)
(* that may clash with the headers the helper or _format writes, and what  *)
(* it returns is handed to a fresh Parser in one receive call.             *)

CLKey == <<"c","o","n","t","e","n","t","_","l","e","n","g","t","h">>

\* The name connect's accept_version key has on the wire; a caller can pass
\* it as a keyword through connect(host, **{'accept-version': 7})
AVKey == <<"a","c","c","e","p","t","-","v","e","r","s","i","o","n">>

\* Keyword headers: none, a plain one, the caller's own content_length, the
\* caller's own id, accept_version and accept-version
FormatHeaders ==
    {<<>>, KeyA :> ValB, CLKey :> Val7, ID :> Val7, ACCEPT_VERSION :> ValB,
     AVKey :> Val7, (CLKey :> Val7) @@ (KeyA :> ValB)}

\* Bodies without NUL bytes
FormatBodies ==
    {None, Some(<<>>), Some(<<"h", "i">>),
     Some(<<"0", "1", "2", "3", "4", "5", "6", "7", "8", "9", "a">>)}

InitFormat ==
    /\ s = Parser.s
    /\ frames = Parser.frames
    /\ frame_eof = Parser.frame_eof
    /\ raised = "None"
    /\ ret = None
    /\ sent = <<>>
    /\ popped = <<>>
    /\ pieces = 0
    /\ rest = <<>>
    /\ pc = "call"
    /\ \E v \in Verbs, h \in FormatHeaders :
         \E o \in Orders(FinalKeys(v, h)),
            b \in (IF v = "send" THEN FormatBodies ELSE {None}) :
           scen = [kind |-> "call", pre |-> <<>>, post |-> <<>>,
                   second |-> None,
                   item |-> [verb |-> v, arg |-> Dest, id_ |-> Val123,
                             body |-> b, headers |-> h, order |-> o,
                             now |-> Now]]

\* The helper is called and returns the frame's bytes
Emit ==
    /\ pc = "call"
    /\ rest' = StreamOf(scen)
    /\ pc' = "idle"
    /\ UNCHANGED <<s, frames, frame_eof, raised, ret, sent, popped, scen,
                   pieces>>

\* p.receive(helper(...))
ReceiveAll == rest # <<>> /\ Receive(Len(rest))

NextFormat == Emit \/ ReceiveAll \/ Consume

SpecFormat == InitFormat /\ [][NextFormat]_vars

-----------------------------------------------------------------------------
(* Client.next, step by step: the peer sends a raw stream and closes the   *)
(* connection; every pass of the while loop is one step.  pc is "idle"     *)
(* between calls and "test" at the loop test.                              *)

MaxSock == 2        \* most pieces the peer's stream is put together from
RecvSize == 4096    \* self.s.recv(4096)

InitClient ==
    /\ InitParser
    /\ \E b \in {Concat(q) : q \in SeqsUpTo(RawTokens, MaxSock)} :
           Start([kind |-> "raw", pre |-> <<>>, post |-> <<>>,
                  second |-> None, item |-> b])

\* What a blocking recv may return: some bytes of the stream, at most
\* RecvSize of them, and '' only when the peer has closed
recv(stream) ==
    IF stream = <<>> THEN {<<>>}
    ELSE {SubSeq(stream, 1, k) :
            k \in 1..(IF Len(stream) < RecvSize THEN Len(stream)
                      ELSE RecvSize)}

\* A variant of the loop test that reads whether or not a frame is queued
WaitingAlways(p) == TRUE

\* while not self.parser.can_read()
Waiting(p) == ~can_read(p)

\* c.next() is called
ClientCall ==
    /\ pc = "idle"
    /\ pc' = "test"
    /\ raised' = "None"
    /\ ret' = None
    /\ UNCHANGED <<s, frames, frame_eof, rest, sent, popped, scen, pieces>>

\* if not s: raise ProtocolError('disconnected')
ClientDisconnected ==
    /\ raised' = "disconnected"
    /\ pc' = "idle"
    /\ UNCHANGED <<s, frames, frame_eof, ret, rest, sent, popped, scen,
                   pieces>>

\* self.parser.receive(s) left r: what it raises ends the call
ClientReceived(c, r) ==
    /\ s' = r.s
    /\ frames' = r.frames
    /\ frame_eof' = r.frame_eof
    /\ raised' = Raised(r.ret)
    /\ pc' = IF Raised(r.ret) = "None" THEN "test" ELSE "idle"
    /\ sent' = sent \o c
    /\ rest' = SubSeq(rest, Len(c) + 1, Len(rest))
    /\ pieces' = IF pieces < 2 THEN pieces + 1 ELSE pieces
    /\ UNCHANGED <<ret, popped, scen>>

\* One pass of the loop body
ClientRead ==
    /\ pc = "test"
    /\ Waiting(ParserState)
    /\ \E c \in recv(rest) :
         IF c = <<>> THEN ClientDisconnected
         ELSE ClientReceived(c, receive(ParserState, c))

\* return self.parser.next()
ClientReturned(r) ==
    /\ frames' = r.frames
    /\ ret' = r.ret
    /\ raised' = r.raised
    /\ popped' = IF r.ret = None THEN popped ELSE Append(popped, r.ret[1])
    /\ pc' = "idle"
    /\ UNCHANGED <<s, frame_eof, rest, sent, scen, pieces>>

ClientReturn ==
    /\ pc = "test"
    /\ ~Waiting(ParserState)
    /\ ClientReturned(next(ParserState))

NextClient == ClientCall \/ ClientRead \/ ClientReturn

SpecClient == InitClient /\ [][NextClient]_vars

-----------------------------------------------------------------------------

(* split_frame on its own: it is applied once to a string made of a run of *)
(* line ends, some lines, a second run of line ends and a first body byte, *)
(* between any two offsets.                                                *)

MaxLead == 3        \* longest run of line ends before the first line
MaxEnd == 2         \* longest run of line ends after the last line

SplitHeads == {<<>>, <<"A">>, <<"A", LF, "b">>, <<"A", CR, LF, "b">>}

SplitInputs ==
    {l \o h \o e \o t : l \in Runs(MaxLead), h \in SplitHeads,
                        e \in Runs(MaxEnd), t \in {<<>>, <<"x">>}}

InitSplit ==
    /\ s = Parser.s
    /\ frames = Parser.frames
    /\ frame_eof = Parser.frame_eof
    /\ raised = "None"
    /\ ret = None
    /\ sent = <<>>
    /\ popped = <<>>
    /\ pieces = 0
    /\ rest = <<>>
    /\ pc = "call"
    /\ \E str \in SplitInputs :
         \E start \in 0..(Len(str) + 1), stop \in 0..(Len(str) + 1) :
            scen = [kind |-> "split", str |-> str, start |-> start,
                    stop |-> stop]

\* split_frame(str, start, stop)
ApplySplit ==
    /\ pc = "call"
    /\ ret' = Some(split_frame(scen.str, scen.start, scen.stop))
    /\ pc' = "done"
    /\ UNCHANGED <<s, frames, frame_eof, raised, rest, sent, popped, scen,
                   pieces>>

NextSplit == ApplySplit

SpecSplit == InitSplit /\ [][NextSplit]_vars

-----------------------------------------------------------------------------

(* What a scenario's frames are expected to parse to, written from the     *)
(* STOMP frame layout and the helpers' documentation rather than from the  *)
(* operators above.                                                        *)

\* A keyword argument's name on the wire: underscores rendered as hyphens
Hyphens(key) == [i \in 1..Len(key) |-> IF key[i] = "_" THEN "-" ELSE key[i]]

\* The text of each value the callers of the scenarios pass
TextOf(v) ==
    CASE v.t = "str" -> v.v
      [] v.t = "int" /\ v.v = 7 -> <<"7">>
      [] v.t = "int" /\ v.v = 123 -> <<"1", "2", "3">>
      [] v.t = "float" -> <<"1", "4", ".", "2", "5">>

\* A length below 100 in decimal
Decimal(n) ==
    IF n < 10 THEN <<Digits[n + 1]>>
    ELSE <<Digits[(n \div 10) + 1], Digits[(n % 10) + 1]>>

CommandOf(verb) ==
    CASE verb = "connect" -> <<"C", "O", "N", "N", "E", "C", "T">>
      [] verb = "send" -> <<"S", "E", "N", "D">>
      [] verb = "subscribe" -> <<"S", "U", "B", "S", "C", "R", "I", "B", "E">>
      [] verb = "unsubscribe" ->
             <<"U", "N", "S", "U", "B", "S", "C", "R", "I", "B", "E">>
      [] verb = "ack" -> <<"A", "C", "K">>
      [] verb = "nack" -> <<"N", "A", "C", "K">>
      [] verb = "begin" -> <<"B", "E", "G", "I", "N">>
      [] verb = "commit" -> <<"C", "O", "M", "M", "I", "T">>
      [] verb = "abort" -> <<"A", "B", "O", "R", "T">>
      [] verb = "disconnect" ->
             <<"D", "I", "S", "C", "O", "N", "N", "E", "C", "T">>

\* The headers each verb mandates, from the call's positional arguments
Mandated(c) ==
    CASE c.verb = "connect" ->
             (Hyphens(ACCEPT_VERSION) :> VERSIONS) @@ (HOST :> TextOf(c.arg))
      [] c.verb \in {"send", "subscribe"} -> DESTINATION :> TextOf(c.arg)
      [] c.verb = "unsubscribe" ->
             (DESTINATION :> TextOf(c.arg)) @@ (ID :> TextOf(c.id_))
      [] c.verb \in {"ack", "nack"} -> ID :> TextOf(c.arg)
      [] c.verb \in {"begin", "commit", "abort"} ->
             TRANSACTION :> TextOf(c.arg)
      [] c.verb = "disconnect" -> RECEIPT :> TextOf(c.arg)

\* The headers a verb supplies only when the caller gave none of that name:
\* subscribe's id, taken from the clock
Defaulted(c) ==
    IF c.verb = "subscribe" THEN ID :> TextOf(c.now) ELSE <<>>

\* The caller's keyword headers as they read on the wire
CallerPart(c) ==
    [k \in {Hyphens(k0) : k0 \in DOMAIN c.headers} |->
        TextOf(c.headers[CHOOSE k0 \in DOMAIN c.headers : Hyphens(k0) = k])]

\* content-length, present when the body is non-empty
LengthPart(body) ==
    IF body = None \/ body[1] = <<>> THEN <<>>
    ELSE CONTENT_LENGTH :> Decimal(Len(body[1]))

\* The frame a formatter call is expected to parse back to; no body and an
\* empty body read the same
ExpectedCall(c) ==
    [command |-> CommandOf(c.verb),
     headers |-> LengthPart(c.body) @@ Mandated(c) @@ CallerPart(c)
                   @@ Defaulted(c),
     body |-> Some(IF c.body = None THEN <<>> ELSE c.body[1])]

\* A header line's name is the text before its first colon and its value
\* everything after that colon
FirstColon(line) ==
    CHOOSE i \in 1..Len(line) :
        line[i] = ":" /\ \A j \in 1..(i - 1) : line[j] # ":"

NameOf(line) == SubSeq(line, 1, FirstColon(line) - 1)

ValueOf(line) == SubSeq(line, FirstColon(line) + 1, Len(line))

\* The header lines of a hand-written frame, in wire order
HeaderLines(w) ==
    (IF w.clen
     THEN <<CONTENT_LENGTH \o <<":">> \o Decimal(Len(w.body))>>
     ELSE <<>>) \o w.lines

\* The header map of a header block: each name once, with the value of its
\* first line
FirstWins(lines) ==
    [n \in {NameOf(lines[i]) : i \in 1..Len(lines)} |->
        ValueOf(lines[CHOOSE i \in 1..Len(lines) :
                          /\ NameOf(lines[i]) = n
                          /\ \A j \in 1..(i - 1) : NameOf(lines[j]) # n])]

\* Every header line of the frame holds a colon
WellFormed(w) ==
    \A i \in 1..Len(w.lines) :
        \E j \in 1..Len(w.lines[i]) : w.lines[i][j] = ":"

ExpectedWire(w) ==
    [command |-> w.command, headers |-> FirstWins(HeaderLines(w)),
     body |-> Some(w.body)]

\* The scenario holds valid frames only
ValidScen(sc) ==
    sc.kind = "wire" =>
        /\ WellFormed(sc.item)
        /\ sc.second # None => WellFormed(sc.second[1])

\* The frames of the scenario's stream, in transmission order
ExpectedFrames(sc) ==
    IF sc.kind = "call" THEN <<ExpectedCall(sc.item)>>
    ELSE <<ExpectedWire(sc.item)>>
           \o (IF sc.second = None THEN <<>>
               ELSE <<ExpectedWire(sc.second[1])>>)

\* Every frame the parser has produced so far, oldest first
Seen == popped \o frames

\* The offset in the stream just past the first frame's terminating NUL
AfterFrame == Len(scen.pre) + Len(FrameBytes(scen))

IsPrefix(p, q) == Len(p) <= Len(q) /\ p = SubSeq(q, 1, Len(p))

-----------------------------------------------------------------------------
(* Claims                                                                  *)

\* C1: round trip.  When a fresh Parser is handed the whole output of a
\* formatter helper in one receive call, receive raises nothing, can_read()
\* is true and next() returns the Frame with the helper's command, the
\* caller's body, and as headers the caller's (underscores as hyphens) plus
\* the verb's mandated ones plus content-length when the body is non-empty.
C1_RoundTrip ==
    [][(/\ scen.kind = "call" /\ scen.pre = <<>> /\ scen.post = <<>>
        /\ sent = <<>> /\ popped = <<>>
        /\ sent' = StreamOf(scen))
       => /\ raised' = "None"
          /\ can_read(ParserState)'
          /\ next(ParserState)'.ret = Some(ExpectedCall(scen.item))]_vars

\* C2: fragmentation invariance.  However the bytes sent so far of a valid
\* stream were cut into receive calls, the frames the parser has produced
\* are those a fresh Parser produces from the same bytes in one call.
C2_Fragmentation ==
    ValidScen(scen) => Seen = receive(Parser, sent).frames

\* A lone frame delivered in two or more non-empty pieces has been parsed
C2_Witness ==
    /\ scen.pre = <<>> /\ scen.post = <<>> /\ scen.second = None
    /\ pieces = 2 /\ rest = <<>>
    /\ Seen = ExpectedFrames(scen)

\* C3: binary-safe body.  Once every byte of a frame whose content-length
\* gives the exact length of a body holding NUL bytes has been received, the
\* parser has produced the Frame whose body is exactly those bytes.
C3_BinaryBody ==
    (/\ scen.kind = "wire" /\ WellFormed(scen.item) /\ scen.item.clen
     /\ \E i \in 1..Len(scen.item.body) : scen.item.body[i] = NUL
     /\ Len(sent) >= AfterFrame)
    => /\ Seen # <<>>
       /\ Seen[1] = ExpectedWire(scen.item)

\* C4: batch and FIFO order.  Of a stream of two valid frames, the frames
\* next() has returned are always the first of the stream's frames in
\* transmission order, and once the whole stream has been received (in one
\* receive call or in several) returned and queued frames together are
\* exactly the stream's frames, in order.
C4_BatchFifo ==
    (ValidScen(scen) /\ scen.second # None)
    => /\ IsPrefix(popped, ExpectedFrames(scen))
       /\ rest = <<>> => Seen = ExpectedFrames(scen)

\* C5: duplicate headers.  Every frame parsed from a hand-written stream
\* holds each header name once, with the value of the name's first line, a
\* name being the text before the line's first colon and the value all the
\* text after it.
C5_FirstHeaderWins ==
    (scen.kind = "wire" /\ ValidScen(scen))
    => /\ Len(Seen) <= Len(ExpectedFrames(scen))
       /\ \A i \in 1..Len(Seen) :
              Seen[i].headers = ExpectedFrames(scen)[i].headers

\* A frame repeating a name, its first value holding a colon, was parsed
C5_Witness ==
    /\ scen.kind = "wire" /\ scen.item.lines = <<LineK2, LineK1>>
    /\ Seen # <<>>

\* C6: heartbeat tolerance.  While only the blank lines before a frame have
\* been received nothing is produced or raised; with the frame and any of
\* the blank lines after it received, the frames produced are those of the
\* frame alone; and with the whole stream received they are those of the
\* stream without its blank lines.
C6_Heartbeats ==
    ValidScen(scen)
    => /\ Len(sent) <= Len(scen.pre) => (Seen = <<>> /\ raised = "None")
       /\ (Len(sent) >= AfterFrame
             /\ Len(sent) <= AfterFrame + Len(scen.post))
          => Seen = receive(Parser, FrameBytes(scen)).frames
       /\ rest = <<>>
          => Seen = receive(Parser,
                            FrameBytes(scen) \o SecondBytes(scen)).frames

\* A frame between an odd run of blank lines and more blank lines was parsed
C6_Witness ==
    /\ scen.pre \in {<<LF>>, <<CR, LF>>, <<LF, CR, LF, LF>>}
    /\ scen.post # <<>>
    /\ rest = <<>>
    /\ Len(Seen) = 1

\* C7: protocol violation.  A frame with a header line holding no colon is
\* never produced; receive raises nothing while no NUL has arrived, and with
\* the whole frame received the last receive call raised ProtocolError.
C7_ProtocolError ==
    (scen.kind = "wire" /\ scen.second = None /\ ~WellFormed(scen.item))
    => /\ Seen = <<>>
       /\ Find(sent, NUL) = -1 => raised = "None"
       /\ Len(sent) >= AfterFrame => raised = "ProtocolError"

\* The receive call that completed a malformed frame, after earlier pieces
C7_Witness ==
    /\ scen.kind = "wire" /\ ~WellFormed(scen.item)
    /\ pieces = 2 /\ Len(sent) = AfterFrame
    /\ raised = "ProtocolError"

\* A buffer in which no frame is complete: it holds no NUL, or it is shorter
\* than the pending body end, or the bytes before its first NUL, leading
\* heartbeats aside, hold no command line followed by a blank line.
RECURSIVE StripBeats(_)
StripBeats(b) ==
    IF b # <<>> /\ b[1] = LF THEN StripBeats(Tail(b))
    ELSE IF Len(b) >= 2 /\ b[1] = CR /\ b[2] = LF
    THEN StripBeats(SubSeq(b, 3, Len(b)))
    ELSE b

HasBlankLine(b) ==
    \E i \in 1..Len(b) :
        /\ b[i] = LF
        /\ \/ i + 1 <= Len(b) /\ b[i + 1] = LF
           \/ i + 2 <= Len(b) /\ b[i + 1] = CR /\ b[i + 2] = LF

HasNul(b) == \E i \in 1..Len(b) : b[i] = NUL

BeforeNul(b) ==
    SubSeq(b, 1, (CHOOSE i \in 1..Len(b) :
                      b[i] = NUL /\ \A j \in 1..(i - 1) : b[j] # NUL) - 1)

Incomplete(b, pending) ==
    \/ ~HasNul(b)
    \/ pending # None /\ Len(b) < pending[1]
    \/ ~HasBlankLine(StripBeats(BeforeNul(b)))

\* The chunk a receive step handed over
Chunk == SubSeq(sent', Len(sent) + 1, Len(sent'))

\* A step is a next() call if it returned a frame or raised IndexError, and
\* a receive call otherwise
NextStep == popped' # popped \/ raised' = "IndexError"

\* C8: incompleteness is never an error.  A receive call whose chunk leaves
\* the buffer without a complete frame raises nothing, leaves the queue as
\* it was and the buffer equal to the old buffer followed by the chunk.
C8_Incomplete ==
    [][(~NextStep /\ Incomplete(s \o Chunk, frame_eof))
       => /\ raised' = "None"
          /\ frames' = frames
          /\ s' = s \o Chunk]_vars

\* Two non-empty chunks without a NUL have been received and kept
C8_Witness ==
    /\ pieces = 2 /\ s = sent /\ ~HasNul(s)
    /\ frames = <<>> /\ popped = <<>> /\ raised = "None"

\* C9: can_read() is true exactly when the queue is non-empty; next() on an
\* empty queue raises IndexError and changes nothing, and otherwise returns
\* the oldest frame and removes only it; the buffer and the pending body
\* end are left alone either way.
C9_CanReadNext ==
    /\ [](can_read(ParserState) <=> frames # <<>>)
    /\ [][NextStep
          => /\ s' = s
             /\ frame_eof' = frame_eof
             /\ IF can_read(ParserState)
                THEN /\ raised' = "None"
                     /\ ret' = Some(Head(frames))
                     /\ frames' = Tail(frames)
                     /\ popped' = Append(popped, Head(frames))
                ELSE /\ raised' = "IndexError"
                     /\ ret' = None
                     /\ frames' = frames
                     /\ popped' = popped]_vars

\* next() has failed on an empty queue after returning a frame, with bytes
\* still buffered
C9_Witness ==
    /\ raised = "IndexError" /\ frames = <<>>
    /\ popped # <<>> /\ s # <<>>

\* C10: receive runs to completion.  Every pass of the loop of receive
\* either ends the loop or shortens the buffer, so the loop makes no more
\* passes than the buffer has bytes; every pass that produces a frame
\* shortens the buffer; and when receive has returned without raising,
\* another extraction attempt on the buffer as it stands produces no frame.
C10_Completion ==
    /\ [](pc = "loop"
            => \/ ~Continue(_try_parse(ParserState))
               \/ Len(_try_parse(ParserState).s) < Len(s))
    /\ [][(pc = "loop" /\ Len(frames') > Len(frames))
          => Len(s') < Len(s)]_vars
    /\ [](pc = "idle" /\ raised = "None"
            => _try_parse(ParserState).ret # "True")

\* One receive call has produced two frames and returned
C10_Witness ==
    /\ pc = "idle" /\ pieces = 1 /\ raised = "None"
    /\ Len(Seen) = 2

\* The payload of each frame of the scenario's stream: the bytes between its
\* blank line and its terminating NUL
Payloads(sc) ==
    [i \in 1..Len(ExpectedFrames(sc)) |-> ExpectedFrames(sc)[i].body[1]]

\* C11 as the spec has it: every frame produced has body None when its
\* payload is empty, and the payload otherwise.
C11_BodyNoneWhenEmpty ==
    ValidScen(scen)
    => /\ Len(Seen) <= Len(Payloads(scen))
       /\ \A i \in 1..Len(Seen) :
              Seen[i].body = IF Payloads(scen)[i] = <<>> THEN None
                             ELSE Some(Payloads(scen)[i])

\* C11, amended: every frame produced has as body the byte string between
\* its blank line and its terminating NUL, the empty string when there is no
\* payload; body is never None.
C11_BodyBytes ==
    ValidScen(scen)
    => /\ Len(Seen) <= Len(Payloads(scen))
       /\ \A i \in 1..Len(Seen) : Seen[i].body = Some(Payloads(scen)[i])

\* A frame without payload and a frame with one have been produced
C11_Witness ==
    /\ Len(Seen) = 2
    /\ Seen[1].body = Some(<<>>)
    /\ Seen[2].body = Some(<<"h", "i">>)

\* The header lines of a formatter's output, read off the bytes: the lines
\* between the command line and the first blank line, each ended by \n
HeadEnd(out) ==
    CHOOSE i \in 1..(Len(out) - 1) :
        /\ out[i] = LF /\ out[i + 1] = LF
        /\ \A j \in 1..(i - 1) : ~(out[j] = LF /\ out[j + 1] = LF)

Stops(out, last) == {i \in 1..last : out[i] = LF}

LinesBetween(out, stops) ==
    [k \in 1..(Cardinality(stops) - 1) |->
        SubSeq(out, Nth(stops, k) + 1, Nth(stops, k + 1) - 1)]

OutHeaderLines(out) == LinesBetween(out, Stops(out, HeadEnd(out)))

\* The payload a call asks for: its body, or nothing
PayloadOf(c) == IF c.body = None THEN <<>> ELSE c.body[1]

\* The content-length line of a payload
LengthLine(p) == CONTENT_LENGTH \o <<":">> \o Decimal(Len(p))

\* What C12 asks of the header lines ls written for the payload p, and of
\* the frame a parser reads from them
LengthWritten(ls, p) ==
    IF p # <<>> THEN ls # <<>> /\ ls[1] = LengthLine(p)
    ELSE \A i \in 1..Len(ls) : NameOf(ls[i]) # CONTENT_LENGTH

LengthRead(headers, p) ==
    IF p # <<>>
    THEN CONTENT_LENGTH \in DOMAIN headers
           /\ headers[CONTENT_LENGTH] = Decimal(Len(p))
    ELSE CONTENT_LENGTH \notin DOMAIN headers

\* C12: formatter content-length.  The output of every helper holds a
\* content-length line exactly when the body is non-empty, as the first
\* header line and giving the body's length; and the frame a parser reads
\* from the output has that content-length, or none when the body is empty,
\* never a value the caller passed.
C12_ContentLength ==
    pc = "idle"
    => /\ LengthWritten(OutHeaderLines(StreamOf(scen)),
                        PayloadOf(scen.item))
       /\ (sent # <<>> /\ rest = <<>>)
          => /\ Seen # <<>>
             /\ LengthRead(Seen[1].headers, PayloadOf(scen.item))


\* The value each structurally required header of a call is to carry:
\* the helper's own, and for subscribe's id the caller's when one is given
Required(c) ==
    Mandated(c) @@
    (IF c.verb # "subscribe" THEN <<>>
     ELSE IF ID \in DOMAIN c.headers THEN ID :> TextOf(c.headers[ID])
     ELSE ID :> TextOf(c.now))

\* The header lines ls carry the value v under the name n, and no other
Carries(ls, n, v) ==
    /\ \E i \in 1..Len(ls) : NameOf(ls[i]) = n
    /\ \A i \in 1..Len(ls) : NameOf(ls[i]) = n => ValueOf(ls[i]) = v

RequiredWritten(ls, req) == \A n \in DOMAIN req : Carries(ls, n, req[n])

RequiredRead(headers, req) ==
    \A n \in DOMAIN req : n \in DOMAIN headers /\ headers[n] = req[n]

\* C13: verb-mandated headers.  In the output of every helper each
\* structurally required header (destination, id, transaction, receipt,
\* host, accept-version) carries the value the helper sets, whatever keyword
\* headers the caller passes, and a parser reads that value; subscribe's id
\* is the caller's when one is passed and the clock's otherwise.
C13_Mandated ==
    pc = "idle"
    => /\ RequiredWritten(OutHeaderLines(StreamOf(scen)), Required(scen.item))
       /\ Seen # <<>> => RequiredRead(Seen[1].headers, Required(scen.item))


\* C14: Client.next.  With a frame queued, next returns the oldest one and
\* reads nothing from the socket; with none it reads one chunk, which is
\* handed to the parser, and it raises 'disconnected' exactly when that read
\* returned no bytes; whenever a disconnection is reported the queue is
\* empty and every frame the bytes received hold has been returned, in
\* order.
C14_ClientNext ==
    /\ [][pc = "test"
          => /\ can_read(ParserState)
                => /\ rest' = rest /\ sent' = sent /\ s' = s
                   /\ ret' = Some(Head(frames))
                   /\ popped' = Append(popped, Head(frames))
                   /\ frames' = Tail(frames)
                   /\ raised' = "None" /\ pc' = "idle"
             /\ ~can_read(ParserState)
                => /\ popped' = popped
                   /\ sent' \o rest' = sent \o rest
                   /\ raised' = "disconnected" <=> rest = <<>>
                   /\ rest # <<>>
                      => /\ Chunk # <<>>
                         /\ s' = receive(ParserState, Chunk).s
                         /\ frames' = receive(ParserState, Chunk).frames]_vars
    /\ [](raised = "disconnected"
          => /\ frames = <<>>
             /\ popped = receive(Parser, sent).frames)

\* Two frames that arrived in one read were returned by two calls, and the
\* third call reported the disconnection
C14_Witness ==
    /\ raised = "disconnected" /\ Len(popped) = 2 /\ pieces = 1


\* C15: pending body end.  In every reachable parser state the pending body
\* end, when set, is at or past the offset of the NUL found by the attempt
\* that set it, which is the first NUL of the buffer.
C15_PendingEnd ==
    frame_eof # None => HasNul(s) /\ frame_eof[1] >= Len(BeforeNul(s))


\* The buffer starts with bytes on which an extraction attempt raises the
\* protocol violation
Violating == _try_parse(ParserState).ret = "ProtocolError"

\* C16: unrecoverable after a violation.  A receive call that raised the
\* protocol violation leaves the offending bytes at the front of the buffer;
\* next() does not touch them, and every receive call made while they are
\* there, whatever its chunk, raises the violation again, enqueues nothing
\* and consumes nothing.
C16_Unrecoverable ==
    /\ [](raised = "ProtocolError" => Violating)
    /\ [][Violating
          => IF NextStep THEN s' = s /\ frame_eof' = frame_eof
             ELSE /\ raised' = "ProtocolError"
                  /\ frames' = frames
                  /\ s' = s \o Chunk
                  /\ frame_eof' = frame_eof]_vars

\* After a frame with a header line without a colon, a well-formed frame
\* was received in full and the violation was raised again
C16_Witness ==
    /\ raised = "ProtocolError" /\ pieces = 2 /\ frames = <<>>
    /\ s = <<"A", LF, "g", LF, LF, NUL, "B", LF, LF, NUL>>


\* The offsets of the NUL bytes of b, and the number of bytes of b up to
\* and including its n-th NUL
NulsOf(b) == {i \in 1..Len(b) : b[i] = NUL}

ThroughNul(b, n) == IF n = 0 THEN 0 ELSE Nth(NulsOf(b), n)

\* C17: byte conservation.  Each successful extraction appends exactly one
\* frame to the queue tail, removes from the front of the buffer exactly
\* the bytes up to and including the first NUL, and leaves the pending body
\* end clear; and in every reachable state the buffer is what is left of
\* all the bytes received once the bytes through the terminating NUL of the
\* most recently enqueued frame are taken off the front.
C17_Conservation ==
    /\ [][Len(frames') > Len(frames)
          => /\ Len(frames') = Len(frames) + 1
             /\ SubSeq(frames', 1, Len(frames)) = frames
             /\ HasNul(s) /\ s = BeforeNul(s) \o <<NUL>> \o s'
             /\ frame_eof' = None
             /\ sent' = sent]_vars
    /\ [](/\ Len(Seen) <= Cardinality(NulsOf(sent))
          /\ s = SubSeq(sent, ThroughNul(sent, Len(Seen)) + 1, Len(sent)))

\* After a frame was extracted and returned, part of the next frame is
\* in the buffer
C17_Witness ==
    /\ pc = "idle" /\ Len(popped) = 1 /\ frames = <<>>
    /\ sent = <<"B", LF, LF, NUL, "A", LF>> /\ s = <<"A", LF>>


\* The part of str between two offsets, s[start:stop]
Part(str, start, stop) ==
    SubSeq(str, start + 1, IF stop > Len(str) THEN Len(str) ELSE stop)

\* The length of the line end b starts with: 1 for \n, 2 for \r\n, else 0
EolAt(b) ==
    IF b # <<>> /\ b[1] = LF THEN 1
    ELSE IF Len(b) >= 2 /\ b[1] = CR /\ b[2] = LF THEN 2
    ELSE 0

Drop(b, n) == SubSeq(b, n + 1, Len(b))

\* The number of line ends b starts with
RECURSIVE LeadCount(_)
LeadCount(b) ==
    IF EolAt(b) = 0 THEN 0 ELSE 1 + LeadCount(Drop(b, EolAt(b)))

\* The lines of b up to its first blank line and the number of bytes
\* through that blank line; cur is the line being read.  No blank line: 0.
RECURSIVE Block(_, _, _, _)
Block(b, cur, lines, n) ==
    IF b = <<>> THEN [end |-> 0, lines |-> <<>>]
    ELSE IF EolAt(b) = 0
    THEN Block(Tail(b), Append(cur, b[1]), lines, n + 1)
    ELSE IF EolAt(Drop(b, EolAt(b))) # 0
    THEN [end |-> n + EolAt(b) + EolAt(Drop(b, EolAt(b))),
          lines |-> Append(lines, cur)]
    ELSE Block(Drop(b, EolAt(b)), <<>>, Append(lines, cur), n + EolAt(b))

\* What split_frame is to return for the part b that starts at offset
\* start: the leading line ends go in pairs, an odd one left over reads as
\* one blank line
ExpectedSplit(b, start) ==
    LET body == StripBeats(b)
        blk == Block(body, <<>>, <<>>, 0)
    IN  IF blk.end = 0 THEN [end |-> 0, lines |-> <<>>]
        ELSE [end |-> start + (Len(b) - Len(body)) + blk.end,
              lines |-> (IF LeadCount(b) % 2 = 1 THEN <<<<>>>> ELSE <<>>)
                          \o blk.lines]

\* C18: split_frame leading blank lines.  split_frame(s, start, stop) skips
\* the pairs of line ends that prefix s[start:stop]: the lines it returns
\* are those before the first blank line that follows a line, after no
\* blank line when the leading line ends are even in number and after
\* exactly one when they are odd; the offset it returns is just past that
\* blank line; and it returns (0, no lines) when there is none, start > stop
\* included.
C18_SplitFrame ==
    pc = "done"
    => ret = Some(ExpectedSplit(Part(scen.str, scen.start, scen.stop),
                                scen.start))

\* Three leading line ends: one blank line, then the lines
C18_Witness ==
    /\ pc = "done"
    /\ scen.str = <<LF, CR, LF, LF, "A", LF, "b", LF, LF, "x">>
    /\ scen.start = 0 /\ scen.stop = 10
    /\ ret = Some([end |-> 9, lines |-> <<<<>>, <<"A">>, <<"b">>>>])


\* The bytes received between the NUL before the n-th and the n-th NUL
Segment(b, n) ==
    SubSeq(b, ThroughNul(b, n - 1) + 1, ThroughNul(b, n) - 1)

\* The first line of b, without its line end
FirstLine(b) ==
    LET ends == {i \in 1..Len(b) : b[i] = LF}
        stop == IF ends = {} THEN Len(b) + 1
                ELSE CHOOSE i \in ends : \A j \in ends : i <= j
    IN  IF stop > 1 /\ stop <= Len(b) /\ b[stop - 1] = CR
        THEN SubSeq(b, 1, stop - 2)
        ELSE SubSeq(b, 1, stop - 1)

\* C19: frame invariant.  On streams whose line ends are \n or \r\n, the
\* n-th frame the parser has produced was produced only after the n-th NUL
\* was received, the bytes between the NUL before and that NUL hold, after
\* their leading line ends, a command line and then a blank line, and the
\* frame's command is that first non-blank line, never the empty string.
C19_FrameInvariant ==
    /\ Len(Seen) <= Cardinality(NulsOf(sent))
    /\ \A n \in 1..Len(Seen) :
         /\ Seen[n].command # <<>>
         /\ Seen[n].command = FirstLine(StripBeats(Segment(sent, n)))
         /\ HasBlankLine(StripBeats(Segment(sent, n)))

\* A frame after an odd number of leading line ends, \r\n among them
C19_Witness ==
    /\ scen.pre = <<LF, CR, LF, LF>> /\ scen.kind = "wire"
    /\ Len(Seen) = 1 /\ Seen[1].command # <<>> /\ rest = <<>>


\* The buffer holds a NUL and an extraction attempt on it returns without a
\* frame and without raising
Wedged == HasNul(s) /\ _try_parse(ParserState).ret \in {"False", "None"}

\* The last call was a receive call that returned normally
AfterReceive == raised = "None" /\ ret = None

\* C20: the wedged state is absorbing.  When a receive call has returned
\* normally and left a NUL in the buffer the parser is wedged; next() does
\* not touch the buffer or the pending body end; and every receive call on
\* a wedged parser, whatever its chunk, returns normally, enqueues nothing
\* and only appends the chunk to the buffer.
C20_WedgedAbsorbing ==
    /\ []((AfterReceive /\ HasNul(s)) => Wedged)
    /\ [][Wedged
          => IF NextStep THEN s' = s /\ frame_eof' = frame_eof
             ELSE /\ raised' = "None"
                  /\ frames' = frames
                  /\ s' = s \o Chunk]_vars

\* After a NUL with no header block before it, a whole well-formed frame
\* was received and nothing was produced
C20_Witness ==
    /\ s = <<NUL, "B", LF, LF, NUL>> /\ sent = s /\ rest = <<>>
    /\ frames = <<>> /\ popped = <<>> /\ raised = "None" /\ pieces = 2


\* A frame with a header line without a colon
BadFrame == <<"A", LF, "g", LF, LF, NUL>>

\* Valid frames as they read on the wire, and the Frame each stands for: a
\* bare command, the same after one heartbeat, and a frame whose
\* content-length of 3 gives the length of its body
ValidFrames ==
    UNION {{[bytes |-> <<c, LF, LF, NUL>>,
             frame |-> [command |-> <<c>>, headers |-> <<>>,
                        body |-> Some(<<>>)]],
            [bytes |-> <<LF, c, LF, LF, NUL>>,
             frame |-> [command |-> <<c>>, headers |-> <<>>,
                        body |-> Some(<<>>)]],
            [bytes |-> <<"A", LF>> \o CONTENT_LENGTH
                         \o <<":", "3", LF, LF, c, LF, LF, NUL>>,
             frame |-> [command |-> <<"A">>,
                        headers |-> CONTENT_LENGTH :> <<"3">>,
                        body |-> Some(<<c, LF, LF>>)]]} : c \in {"B", "C"}}

\* The valid frames b starts with, oldest first, and the bytes after them
StartsWith(b, f) == IsPrefix(f.bytes, b)

RECURSIVE ValidPrefix(_, _)
ValidPrefix(b, done) ==
    IF \E f \in ValidFrames : StartsWith(b, f)
    THEN LET f == CHOOSE g \in ValidFrames : StartsWith(b, g)
         IN  ValidPrefix(Drop(b, Len(f.bytes)), Append(done, f.frame))
    ELSE [frames |-> done, rest |-> b]

\* What C21 asks of a receive step whose chunk is k valid frames (v.frames)
\* followed by v.rest, which starts with the frame in violation
FramesThenRaise(v) ==
    /\ raised' = "ProtocolError"
    /\ frames' = frames \o v.frames
    /\ can_read(ParserState)' <=> (frames \o v.frames # <<>>)
    /\ s' = v.rest

\* C21: frames before a violation survive.  When a parser with an empty
\* buffer receives in one chunk k valid frames followed by a frame with a
\* header line without a colon, the call raises ProtocolError with the k
\* frames added to the queue in order, can_read() is true when the queue
\* then holds a frame, and the buffer starts at the first byte after the
\* k-th frame's NUL; and next() then returns the k frames in that order.
C21_FramesSurvive ==
    /\ [][(/\ ~NextStep /\ s = <<>>
           /\ IsPrefix(BadFrame, ValidPrefix(Chunk, <<>>).rest))
          => FramesThenRaise(ValidPrefix(Chunk, <<>>))]_vars
    /\ []((pieces = 1 /\ IsPrefix(BadFrame, ValidPrefix(sent, <<>>).rest))
          => /\ popped \o frames = ValidPrefix(sent, <<>>).frames
             /\ s = ValidPrefix(sent, <<>>).rest)

\* Two valid frames and a frame in violation came in one chunk: the call
\* raised, the two frames are queued and the buffer starts at the third
C21_Witness ==
    /\ raised = "ProtocolError" /\ pieces = 1 /\ popped = <<>>
    /\ Len(frames) = 2 /\ frames[1].command = <<"B">>
    /\ frames[2].command = <<"C">> /\ s = BadFrame


\* What a fresh Parser is left with by one receive call with all the bytes
\* received so far
Whole == receive(Parser, sent)

\* C22: chunking independence for arbitrary streams.  Whenever the bytes
\* received so far raise no error when a fresh Parser receives them in one
\* call, the frames the parser has produced from them in chunks, its buffer
\* and its pending body end are those of that fresh Parser; and the pending
\* body end changes only in a receive call whose buffer holds a NUL, that
\* is, when an extraction is attempted.
C22_ChunkingIndependence ==
    /\ [](Raised(Whole.ret) = "None"
          => /\ popped \o frames = Whole.frames
             /\ s = Whole.s
             /\ frame_eof = Whole.frame_eof)
    /\ [][frame_eof' # frame_eof
          => ~NextStep /\ HasNul(s \o Chunk)]_vars

\* A frame and then bytes that wedge the parser came in two chunks
C22_Witness ==
    /\ pieces = 2 /\ rest = <<>> /\ raised = "None"
    /\ sent = <<"B", LF, LF, NUL>> \o HeadCL \o <<NUL>>
    /\ Len(popped \o frames) = 1 /\ s = HeadCL \o <<NUL>>
    /\ frame_eof # None

=============================================================================
